---- MODULE Spec2Model ----
(***************************************************************************)
(* A model of functions.js: the credential issuance flow tests() driven by *)
(* main(), its four service operations (createInvitation,                  *)
(* getConnectionStatus, createCredentialOffer, getCredentialState), the    *)
(* two transport helpers (getRequest, postRequest) and wait().             *)
(*                                                                         *)
(* Every `await` of tests() is a suspension point.  One action models the  *)
(* code that runs from one suspension point to the next: the continuation  *)
(* that is resumed when a response arrives or a timer fires, up to and     *)
(* including the request or timer it starts before suspending again.       *)
(***************************************************************************)
EXTENDS Integers, Sequences, FiniteSets

(***************************************************************************)
(* Bounds of the model.                                                    *)
(***************************************************************************)
\* polls of the connection-wait loop the model follows
MaxConnPolls == 3
\* polls of the credential-wait loop the model follows
MaxCredPolls == 2

(***************************************************************************)
(* Program constants.                                                      *)
(***************************************************************************)
\* wait(5000): the grace period after the invitation is printed
GraceMs == 5000
\* wait(2500): the delay at the head of each polling loop
PollMs == 2500

(***************************************************************************)
(* JavaScript values.  Every value is a record tagged by t.  Throw is not  *)
(* a value: it stands for an expression that raised an exception (a        *)
(* rejected promise).                                                      *)
(***************************************************************************)
Undefined == [t |-> "undefined"]
Throw == [t |-> "throw"]
NotJson == [t |-> "notjson"]
Str(s) == [t |-> "string", s |-> s]
Obj(fields) == [t |-> "object", f |-> fields]
Empty == [k \in {} |-> Undefined]

IsThrow(v) == v.t = "throw"
IsUndefined(v) == v.t = "undefined"

\* v[k] / v.k : reading a property of undefined raises a TypeError, a missing
\* property of an object (or any property of a string primitive that it does
\* not have) reads as undefined.
Get(v, k) ==
    IF v.t = "throw" THEN Throw
    ELSE IF v.t \in {"undefined", "null"} THEN Throw
    ELSE IF v.t = "object" /\ k \in DOMAIN v.f THEN v.f[k]
    ELSE Undefined

\* `${v}` : the template literal's string conversion of v.
TemplateString(v) ==
    IF v.t = "string" THEN v.s
    ELSE IF v.t = "undefined" THEN "undefined"
    ELSE "[object Object]"

\* a == b for the values a poll can return here (a JSON string or undefined)
\* against a string literal: equal only for the same string.
LooseEq(a, b) == a.t = "string" /\ a.s = b

\* JSON.stringify(data) of an object: properties whose value is undefined are
\* left out of the text.
JSONStringify(v) ==
    IF v.t = "object"
    THEN Obj([k \in {j \in DOMAIN v.f : ~IsUndefined(v.f[j])} |-> v.f[k]])
    ELSE v

(***************************************************************************)
(* Transport.  A response of the remote service is what fetch() sees: a    *)
(* network failure, or an HTTP status with a body that is JSON or not.     *)
(***************************************************************************)
NetworkError == [t |-> "response", net |-> "error", status |-> 0, body |-> NotJson]
Http(status, body) ==
    [t |-> "response", net |-> "ok", status |-> status, body |-> body]

\* fetch(url, {...}): the promise rejects only on a network failure; a
\* response with any HTTP status fulfils it.
fetch(resp) == IF resp.net = "error" THEN Throw ELSE resp

\* response.json(): rejects when the body is not JSON; the status is not read.
ResponseJson(response) ==
    IF IsThrow(response) THEN Throw
    ELSE IF response.body = NotJson THEN Throw
    ELSE response.body

\* getRequest(url): what the call resolves to for the service's response resp.
getRequest(resp) == ResponseJson(fetch(resp))

\* postRequest(url, data): what the call resolves to for the response resp.
postRequest(resp) == ResponseJson(fetch(resp))

\* The request getRequest(url) hands to fetch: method GET, no body.
GetRequestOf(op, key) ==
    [op |-> op, method |-> "GET", key |-> key, body |-> Undefined]

\* The request postRequest(url, data) hands to fetch: method POST, body
\* JSON.stringify(data).
PostRequestOf(op, data) ==
    [op |-> op, method |-> "POST", key |-> "", body |-> JSONStringify(data)]

(***************************************************************************)
(* Service client: the value each operation resolves to (or Throw) for the *)
(* response resp of the service, and the request each operation issues.    *)
(***************************************************************************)
\* faulty variant: the connectionId is read from data.id
createInvitationWrongField(resp) ==
    LET response == postRequest(resp)
        invitationUrl == Get(Get(response, "data"), "invitationUrl")
        connectionId == Get(Get(response, "data"), "id")
    IN  IF IsThrow(invitationUrl) \/ IsThrow(connectionId) THEN Throw
        ELSE Obj([invitationUrl |-> invitationUrl, connectionId |-> connectionId])

createInvitation(resp) ==
    LET response == postRequest(resp)
        invitationUrl == Get(Get(response, "data"), "invitationUrl")
        connectionId == Get(Get(Get(response, "data"), "connection"), "id")
    IN  IF IsThrow(invitationUrl) \/ IsThrow(connectionId) THEN Throw
        ELSE Obj([invitationUrl |-> invitationUrl, connectionId |-> connectionId])

\* postRequest(url) with data defaulting to {}
createInvitationRequest == PostRequestOf("createInvitation", Obj(Empty))

getConnectionStatus(resp) ==
    LET response == getRequest(resp)
    IN  Get(Get(Get(response, "data"), "records"), "status")

getConnectionStatusRequest(connectionId) ==
    GetRequestOf("getConnectionStatus", TemplateString(connectionId))

createCredentialOffer(resp) ==
    LET response == postRequest(resp)
    IN  Get(Get(response, "data"), "id")

CredentialDefinitionId == Str("<YOUR CREDENTIAL DEFINITION ID>")

\* faulty variant: the attributes are sorted by name before they are sent
createCredentialOfferRequestSorted(connectionId, attributes) ==
    PostRequestOf("createCredentialOffer",
        Obj([connectionId |-> connectionId,
             credentialDefinitionId |-> CredentialDefinitionId,
             comment |-> Str(""),
             attributes |-> [attributes EXCEPT !.a =
                 << attributes.a[2], attributes.a[3], attributes.a[1], attributes.a[4] >>],
             autoAcceptCredential |-> Str("always")]))

createCredentialOfferRequest(connectionId, attributes) ==
    PostRequestOf("createCredentialOffer",
        Obj([connectionId |-> connectionId,
             credentialDefinitionId |-> CredentialDefinitionId,
             comment |-> Str(""),
             attributes |-> attributes,
             autoAcceptCredential |-> Str("always")]))

getCredentialState(resp) ==
    LET response == getRequest(resp)
    IN  Get(Get(response, "data"), "state")

\* faulty variant: the credential loop polls the connection endpoint (copied call)
getCredentialStateRequestCopied(credentialId) ==
    GetRequestOf("getConnectionStatus", TemplateString(credentialId))

getCredentialStateRequest(credentialId) ==
    GetRequestOf("getCredentialState", TemplateString(credentialId))

\* the attributes literal of tests()
Attributes ==
    [t |-> "array",
     a |-> << Obj([name |-> Str("user_id"), value |-> Str("testuser@merlot-education.eu")]),
              Obj([name |-> Str("course_name"), value |-> Str("Example Course")]),
              Obj([name |-> Str("grade"), value |-> Str("15/15 - passed")]),
              Obj([name |-> Str("variable_data"), value |-> Str("whatevs")]) >>]

(***************************************************************************)
(* The responses the remote service may give, per operation: well-formed   *)
(* envelopes, envelopes with a field missing, a body that is not JSON, a   *)
(* non-2xx status (with a body that is or is not a well-formed envelope)   *)
(* and a network failure.                                                  *)
(***************************************************************************)
ConnectionIds == {"conn-1", "conn-2"}
CredentialIds == {"cred-1", "cred-2"}
InvitationUrl == "https://wallet.example/inv/abc"
\* "abandoned" and "declined": states by which the service reports a failure
ConnectionStatuses == {"pending", "abandoned", "trusted"}
CredentialStates == {"offer-sent", "declined", "done"}

InvitationBody(c) ==
    Obj([data |-> Obj([invitationUrl |-> Str(InvitationUrl),
                       connection |-> Obj([id |-> Str(c)])])])
InvitationMalformed ==
    { Obj(Empty),
      Obj([data |-> Obj(Empty)]),
      Obj([data |-> Obj([invitationUrl |-> Str(InvitationUrl)])]),
      Obj([data |-> Obj([connection |-> Obj([id |-> Str("conn-1")])])]),
      Obj([data |-> Obj([invitationUrl |-> Str(InvitationUrl),
                         connection |-> Obj(Empty)])]) }
InvitationResponses ==
    {NetworkError}
    \cup {Http(200, b) : b \in {InvitationBody(c) : c \in ConnectionIds}
                              \cup InvitationMalformed \cup {NotJson}}
    \cup {Http(500, b) : b \in {InvitationBody("conn-1"), NotJson}}

StatusBody(s) == Obj([data |-> Obj([records |-> Obj([status |-> Str(s)])])])
StatusMalformed ==
    { Obj(Empty), Obj([data |-> Obj(Empty)]),
      Obj([data |-> Obj([records |-> Obj(Empty)])]) }
StatusResponses ==
    {NetworkError}
    \cup {Http(200, b) : b \in {StatusBody(s) : s \in ConnectionStatuses}
                              \cup StatusMalformed \cup {NotJson}}
    \cup {Http(500, b) : b \in {StatusBody("trusted"), NotJson}}

OfferBody(i) == Obj([data |-> Obj([id |-> Str(i)])])
OfferMalformed == { Obj(Empty), Obj([data |-> Obj(Empty)]) }
OfferResponses ==
    {NetworkError}
    \cup {Http(200, b) : b \in {OfferBody(i) : i \in CredentialIds}
                              \cup OfferMalformed \cup {NotJson}}
    \cup {Http(500, b) : b \in {OfferBody("cred-1"), NotJson}}

StateBody(s) == Obj([data |-> Obj([state |-> Str(s)])])
StateMalformed == { Obj(Empty), Obj([data |-> Obj(Empty)]) }
StateResponses ==
    {NetworkError}
    \cup {Http(200, b) : b \in {StateBody(s) : s \in CredentialStates}
                              \cup StateMalformed \cup {NotJson}}
    \cup {Http(500, b) : b \in {StateBody("done"), NotJson}}

(***************************************************************************)
(* State.                                                                  *)
(***************************************************************************)
VARIABLES
    flows,            \* the invocations of tests() of this run
    pc,               \* pc[f]: where invocation f of tests() is suspended
    invitationObject, \* the global assigned (undeclared) in tests()
    credentialId,     \* credentialId[f]: the local of invocation f
    inflight,         \* requests handed to fetch whose promise is pending
    timer,            \* timer[f]: ms left of f's pending setTimeout, -1 if none
    hist              \* hist[f]: what invocation f did and saw, in order

vars == << flows, pc, invitationObject, credentialId, inflight, timer, hist >>

NoTimer == -1

\* history entries
\* a request: the argument the operation was called with, the key appended
\* to the url and the body handed to fetch
ReqEv(req, arg) ==
    [kind |-> "request", op |-> req.op, val |-> arg, key |-> req.key,
     body |-> req.body, http |-> 0, ms |-> 0]
\* a response: its HTTP status and body as received, and what the operation
\* resolved to (or Throw)
RespEv(op, resp, val) ==
    [kind |-> "response", op |-> op, val |-> val, key |-> "",
     body |-> resp.body, http |-> resp.status, ms |-> 0]
\* site: which wait() of tests() started the timer (grace, connLoop, credLoop)
DelayEv(site, ms) ==
    [kind |-> "delay", op |-> site, val |-> Undefined, key |-> "",
     body |-> Undefined, http |-> 0, ms |-> ms]
LogEv(val) ==
    [kind |-> "console", op |-> "log", val |-> val, key |-> "",
     body |-> Undefined, http |-> 0, ms |-> 0]

InitFlows(F) ==
    /\ flows = F
    /\ pc = [f \in F |-> "start"]
    /\ invitationObject = Undefined
    /\ credentialId = [f \in F |-> Undefined]
    /\ inflight = {}
    /\ timer = [f \in F |-> NoTimer]
    /\ hist = [f \in F |-> << >>]

\* main() calls tests() once
Init == InitFlows({1})

(***************************************************************************)
(* Helpers of the actions.                                                 *)
(***************************************************************************)
Pending(f, op) == \E r \in inflight : r.flow = f /\ r.req.op = op
Settle(f, op) == {r \in inflight : ~(r.flow = f /\ r.req.op = op)}
Issue(f, req) == [flow |-> f, req |-> req]

Count(h, kind, op) ==
    Cardinality({i \in 1..Len(h) : h[i].kind = kind /\ h[i].op = op})
ConnPolls(f) == Count(hist[f], "request", "getConnectionStatus")
CredPolls(f) == Count(hist[f], "request", "getCredentialState")

\* faulty variant: if (connectionStatus) break;
ConnectionEstablishedTruthy(connectionStatus) == connectionStatus.t = "string"
\* faulty variant: the comparison inverted, if (connectionStatus != 'trusted') break;
ConnectionEstablishedInverted(connectionStatus) == ~LooseEq(connectionStatus, "trusted")
\* faulty variant: the literal is misspelt, if (connectionStatus == 'Trusted') break;
ConnectionEstablishedMisspelt(connectionStatus) == LooseEq(connectionStatus, "Trusted")

\* if (connectionStatus == 'trusted') break;
ConnectionEstablished(connectionStatus) == LooseEq(connectionStatus, "trusted")
\* faulty variant: if (credentialState) break;
CredentialDeliveredTruthy(credentialState) == credentialState.t = "string"
\* faulty variant: a service-reported failure state also ends the loop,
\* if (credentialState == 'done' || credentialState == 'declined') break;
CredentialDeliveredOrDeclined(credentialState) ==
    LooseEq(credentialState, "done") \/ LooseEq(credentialState, "declined")

\* faulty variant: the break of the credential loop is missing
CredentialDeliveredNever(credentialState) == FALSE

\* if (credentialState == 'done') break;
CredentialDelivered(credentialState) == LooseEq(credentialState, "done")

\* faulty variant: main() catches the rejection and calls tests() again
RejectRestart(f, ev) ==
    /\ pc' = [pc EXCEPT ![f] = "start"]
    /\ hist' = [hist EXCEPT ![f] = Append(@, ev)]
    /\ timer' = [timer EXCEPT ![f] = NoTimer]

\* faulty variant: a failed poll is caught inside its loop, which waits and polls again
RejectRetryPoll(f, ev) ==
    /\ pc' = [pc EXCEPT ![f] =
                 IF ev.op = "getConnectionStatus" THEN "awaitConnDelay"
                 ELSE IF ev.op = "getCredentialState" THEN "awaitCredDelay"
                 ELSE "rejected"]
    /\ hist' = [hist EXCEPT ![f] = Append(@, ev)]
    /\ timer' = [timer EXCEPT ![f] =
                 IF ev.op \in {"getConnectionStatus", "getCredentialState"}
                 THEN PollMs ELSE NoTimer]

\* a rejected await: the exception leaves tests(); main() does not catch it
Reject(f, ev) ==
    /\ pc' = [pc EXCEPT ![f] = "rejected"]
    /\ hist' = [hist EXCEPT ![f] = Append(@, ev)]
    /\ timer' = [timer EXCEPT ![f] = NoTimer]

(***************************************************************************)
(* Actions: one per continuation of tests().                               *)
(***************************************************************************)
\* main() -> tests() -> createInvitation() -> postRequest() -> fetch()
Main(f) ==
    /\ pc[f] = "start"
    /\ inflight' = inflight \cup {Issue(f, createInvitationRequest)}
    /\ hist' = [hist EXCEPT ![f] = Append(@, ReqEv(createInvitationRequest, Undefined))]
    /\ pc' = [pc EXCEPT ![f] = "awaitInvitation"]
    /\ UNCHANGED << flows, invitationObject, credentialId, timer >>

\* createInvitation() settles: assign the global, print the url, wait(5000)
InvitationSettled(f, resp) ==
    /\ pc[f] = "awaitInvitation"
    /\ Pending(f, "createInvitation")
    /\ inflight' = Settle(f, "createInvitation")
    /\ LET inv == createInvitation(resp)
       IN  IF IsThrow(inv)
           THEN /\ Reject(f, RespEv("createInvitation", resp, Throw))
                /\ UNCHANGED invitationObject
           ELSE /\ invitationObject' = inv
                /\ hist' = [hist EXCEPT ![f] = @ \o
                       << RespEv("createInvitation", resp, inv),
                          LogEv(Get(inv, "invitationUrl")),
                          DelayEv("grace", GraceMs) >>]
                /\ timer' = [timer EXCEPT ![f] = GraceMs]
                /\ pc' = [pc EXCEPT ![f] = "awaitGrace"]
    /\ UNCHANGED << flows, credentialId >>

\* faulty variant: wait(5000) is not awaited, the loop is entered at once
GraceElapsedNoAwait(f) ==
    /\ pc[f] = "awaitGrace"
    /\ timer' = [timer EXCEPT ![f] = PollMs]
    /\ hist' = [hist EXCEPT ![f] = Append(@, DelayEv("connLoop", PollMs))]
    /\ pc' = [pc EXCEPT ![f] = "awaitConnDelay"]
    /\ UNCHANGED << flows, invitationObject, credentialId, inflight >>

\* faulty variant: a loop that polls first and waits afterwards, so that the first
\* poll follows the grace period at once
GraceElapsedPollFirst(f) ==
    /\ pc[f] = "awaitGrace"
    /\ timer[f] = 0
    /\ LET connectionId == Get(invitationObject, "connectionId")
           req == getConnectionStatusRequest(connectionId)
       IN  /\ inflight' = inflight \cup {Issue(f, req)}
           /\ hist' = [hist EXCEPT ![f] = Append(@, ReqEv(req, connectionId))]
    /\ timer' = [timer EXCEPT ![f] = NoTimer]
    /\ pc' = [pc EXCEPT ![f] = "awaitConnStatus"]
    /\ UNCHANGED << flows, invitationObject, credentialId >>

\* wait(5000) elapsed: enter the connection loop, wait(2500)
GraceElapsed(f) ==
    /\ pc[f] = "awaitGrace"
    /\ timer[f] = 0
    /\ timer' = [timer EXCEPT ![f] = PollMs]
    /\ hist' = [hist EXCEPT ![f] = Append(@, DelayEv("connLoop", PollMs))]
    /\ pc' = [pc EXCEPT ![f] = "awaitConnDelay"]
    /\ UNCHANGED << flows, invitationObject, credentialId, inflight >>

\* faulty variant: wait(2500) is not awaited, so the poll is issued while the
\* delay is still pending
ConnDelayElapsedNoAwait(f) ==
    /\ pc[f] = "awaitConnDelay"
    /\ ConnPolls(f) < MaxConnPolls
    /\ LET connectionId == Get(invitationObject, "connectionId")
           req == getConnectionStatusRequest(connectionId)
       IN  /\ inflight' = inflight \cup {Issue(f, req)}
           /\ hist' = [hist EXCEPT ![f] = Append(@, ReqEv(req, connectionId))]
    /\ pc' = [pc EXCEPT ![f] = "awaitConnStatus"]
    /\ UNCHANGED << flows, invitationObject, credentialId, timer >>

\* wait(2500) elapsed in the connection loop:
\* getConnectionStatus(invitationObject.connectionId)
ConnDelayElapsed(f) ==
    /\ pc[f] = "awaitConnDelay"
    /\ timer[f] = 0
    /\ ConnPolls(f) < MaxConnPolls
    /\ LET connectionId == Get(invitationObject, "connectionId")
           req == getConnectionStatusRequest(connectionId)
       IN  IF IsThrow(connectionId)
           THEN /\ Reject(f, RespEv("getConnectionStatus", NetworkError, Throw))
                /\ UNCHANGED inflight
           ELSE /\ inflight' = inflight \cup {Issue(f, req)}
                /\ hist' = [hist EXCEPT ![f] = Append(@, ReqEv(req, connectionId))]
                /\ timer' = [timer EXCEPT ![f] = NoTimer]
                /\ pc' = [pc EXCEPT ![f] = "awaitConnStatus"]
    /\ UNCHANGED << flows, invitationObject, credentialId >>

\* getConnectionStatus() settles: print the status; on 'trusted' leave the
\* loop and call createCredentialOffer(invitationObject.connectionId,
\* attributes), otherwise wait(2500) again
ConnStatusSettled(f, resp) ==
    /\ pc[f] = "awaitConnStatus"
    /\ Pending(f, "getConnectionStatus")
    /\ LET connectionStatus == getConnectionStatus(resp)
           connectionId == Get(invitationObject, "connectionId")
           req == createCredentialOfferRequest(connectionId, Attributes)
           seen == << RespEv("getConnectionStatus", resp, connectionStatus),
                      LogEv(connectionStatus) >>
       IN  IF IsThrow(connectionStatus)
           THEN /\ Reject(f, RespEv("getConnectionStatus", resp, Throw))
                /\ inflight' = Settle(f, "getConnectionStatus")
           ELSE IF ConnectionEstablished(connectionStatus)
           THEN /\ inflight' = Settle(f, "getConnectionStatus") \cup {Issue(f, req)}
                /\ hist' = [hist EXCEPT ![f] = @ \o seen \o << ReqEv(req, connectionId) >>]
                /\ timer' = [timer EXCEPT ![f] = NoTimer]
                /\ pc' = [pc EXCEPT ![f] = "awaitOffer"]
           ELSE /\ inflight' = Settle(f, "getConnectionStatus")
                /\ hist' = [hist EXCEPT ![f] = @ \o seen \o << DelayEv("connLoop", PollMs) >>]
                /\ timer' = [timer EXCEPT ![f] = PollMs]
                /\ pc' = [pc EXCEPT ![f] = "awaitConnDelay"]
    /\ UNCHANGED << flows, invitationObject, credentialId >>

\* createCredentialOffer() settles: keep the credentialId, enter the
\* credential loop, wait(2500)
OfferSettled(f, resp) ==
    /\ pc[f] = "awaitOffer"
    /\ Pending(f, "createCredentialOffer")
    /\ inflight' = Settle(f, "createCredentialOffer")
    /\ LET id == createCredentialOffer(resp)
       IN  IF IsThrow(id)
           THEN /\ Reject(f, RespEv("createCredentialOffer", resp, Throw))
                /\ UNCHANGED credentialId
           ELSE /\ credentialId' = [credentialId EXCEPT ![f] = id]
                /\ hist' = [hist EXCEPT ![f] = @ \o
                       << RespEv("createCredentialOffer", resp, id), DelayEv("credLoop", PollMs) >>]
                /\ timer' = [timer EXCEPT ![f] = PollMs]
                /\ pc' = [pc EXCEPT ![f] = "awaitCredDelay"]
    /\ UNCHANGED << flows, invitationObject >>

\* wait(2500) elapsed in the credential loop: getCredentialState(credentialId)
CredDelayElapsed(f) ==
    /\ pc[f] = "awaitCredDelay"
    /\ timer[f] = 0
    /\ CredPolls(f) < MaxCredPolls
    /\ LET req == getCredentialStateRequest(credentialId[f])
       IN  /\ inflight' = inflight \cup {Issue(f, req)}
           /\ hist' = [hist EXCEPT ![f] = Append(@, ReqEv(req, credentialId[f]))]
    /\ timer' = [timer EXCEPT ![f] = NoTimer]
    /\ pc' = [pc EXCEPT ![f] = "awaitCredState"]
    /\ UNCHANGED << flows, invitationObject, credentialId >>

\* getCredentialState() settles: print the state; on 'done' leave the loop
\* and return from tests(), otherwise wait(2500) again
CredStateSettled(f, resp) ==
    /\ pc[f] = "awaitCredState"
    /\ Pending(f, "getCredentialState")
    /\ inflight' = Settle(f, "getCredentialState")
    /\ LET credentialState == getCredentialState(resp)
           seen == << RespEv("getCredentialState", resp, credentialState),
                      LogEv(credentialState) >>
       IN  IF IsThrow(credentialState)
           THEN Reject(f, RespEv("getCredentialState", resp, Throw))
           ELSE IF CredentialDelivered(credentialState)
           THEN /\ hist' = [hist EXCEPT ![f] = @ \o seen]
                /\ timer' = [timer EXCEPT ![f] = NoTimer]
                /\ pc' = [pc EXCEPT ![f] = "resolved"]
           ELSE /\ hist' = [hist EXCEPT ![f] = @ \o seen \o << DelayEv("credLoop", PollMs) >>]
                /\ timer' = [timer EXCEPT ![f] = PollMs]
                /\ pc' = [pc EXCEPT ![f] = "awaitCredDelay"]
    /\ UNCHANGED << flows, invitationObject, credentialId >>

\* setTimeout: time passes up to the next timer that is due
Running == {f \in flows : timer[f] > 0}
Tick ==
    /\ Running # {}
    /\ LET d == CHOOSE m \in {timer[f] : f \in Running} :
                    \A f \in Running : m <= timer[f]
       IN  timer' = [f \in flows |-> IF timer[f] > 0 THEN timer[f] - d ELSE timer[f]]
    /\ UNCHANGED << flows, pc, invitationObject, credentialId, inflight, hist >>

Next ==
    \/ \E f \in flows : Main(f)
    \/ \E f \in flows : \E resp \in InvitationResponses : InvitationSettled(f, resp)
    \/ \E f \in flows : GraceElapsed(f)
    \/ \E f \in flows : ConnDelayElapsed(f)
    \/ \E f \in flows : \E resp \in StatusResponses : ConnStatusSettled(f, resp)
    \/ \E f \in flows : \E resp \in OfferResponses : OfferSettled(f, resp)
    \/ \E f \in flows : CredDelayElapsed(f)
    \/ \E f \in flows : \E resp \in StateResponses : CredStateSettled(f, resp)
    \/ Tick

Spec == Init /\ [][Next]_vars

(***************************************************************************)
(* Reading the history of an invocation.                                   *)
(***************************************************************************)
Positions(f, kind, op) ==
    {i \in 1..Len(hist[f]) : hist[f][i].kind = kind /\ hist[f][i].op = op}
IsStr(v, s) == v.t = "string" /\ v.s = s
First(S) == CHOOSE i \in S : \A j \in S : i <= j

\* the polls that returned the string s
Returned(f, op, s) == {i \in Positions(f, "response", op) : IsStr(hist[f][i].val, s)}
\* the polls that failed
Failed(f, op) == {i \in Positions(f, "response", op) : IsThrow(hist[f][i].val)}
OfferRequests(f) == Positions(f, "request", "createCredentialOffer")
\* the connection loop has been left by its break
ConnLoopLeft(f) == OfferRequests(f) # {}
\* the invocation is suspended inside the connection loop
InConnLoop(f) == pc[f] \in {"awaitConnDelay", "awaitConnStatus"}
InCredLoop(f) == pc[f] \in {"awaitCredDelay", "awaitCredState"}

(***************************************************************************)
(* C1: the createCredentialOffer request is never issued before some       *)
(* getConnectionStatus poll of the flow has returned 'trusted', and the    *)
(* flow never completes before some getCredentialState poll has returned   *)
(* 'done'.                                                                 *)
(***************************************************************************)
C1_OfferAfterTrusted ==
    \A f \in flows :
        /\ \A i \in OfferRequests(f) :
               \E j \in Returned(f, "getConnectionStatus", "trusted") : j < i
        /\ pc[f] = "resolved" => Returned(f, "getCredentialState", "done") # {}

C1_Witness ==
    \E f \in flows :
        /\ pc[f] = "resolved"
        /\ OfferRequests(f) # {}
        /\ Cardinality(Positions(f, "response", "getConnectionStatus")) >= 2

(***************************************************************************)
(* C2: with no request failing, the connection-wait loop ends at the first *)
(* poll that returns 'trusted' and at no other: when the first 'trusted'   *)
(* is the n-th value polled, exactly n polls have been issued, the loop    *)
(* has been left, and no further connection poll follows; as long as no    *)
(* poll has returned 'trusted' the loop has not been left.                 *)
(***************************************************************************)
C2_ExactlyNPolls ==
    \A f \in flows :
        LET polls == Positions(f, "request", "getConnectionStatus")
            answers == Positions(f, "response", "getConnectionStatus")
            trusted == Returned(f, "getConnectionStatus", "trusted")
        IN  /\ trusted # {} =>
                 /\ ConnLoopLeft(f)
                 /\ Cardinality(trusted) = 1
                 /\ \A i \in answers : i <= First(trusted)
                 /\ Cardinality(polls) = Cardinality(answers)
                 /\ \A i \in polls : i < First(trusted)
            /\ (trusted = {} /\ Failed(f, "getConnectionStatus") = {}
                    /\ Positions(f, "delay", "connLoop") # {})
                 => InConnLoop(f) /\ ~ConnLoopLeft(f)

C2_Witness ==
    \E f \in flows :
        /\ ConnLoopLeft(f)
        /\ ConnPolls(f) = 3
        /\ Cardinality(Returned(f, "getConnectionStatus", "pending")) = 2

(***************************************************************************)
(* C3 as stated: a connection loop left after n polls has started n-1      *)
(* poll-interval delays, each of them between two consecutive polls.       *)
(***************************************************************************)
C3_Original ==
    \A f \in flows :
        LET polls == Positions(f, "request", "getConnectionStatus")
            delays == Positions(f, "delay", "connLoop")
        IN  ConnLoopLeft(f) =>
              /\ Cardinality(delays) = Cardinality(polls) - 1
              /\ \A d \in delays : \E i, j \in polls : i < d /\ d < j

(***************************************************************************)
(* C3, amended: a connection loop left after n polls has started exactly n *)
(* poll-interval delays: one delay comes right before every poll, the      *)
(* first included, every delay is followed by a poll, and no delay follows *)
(* the poll that returned 'trusted'.                                       *)
(***************************************************************************)
C3_DelayBeforeEveryPoll ==
    \A f \in flows :
        LET polls == Positions(f, "request", "getConnectionStatus")
            delays == Positions(f, "delay", "connLoop")
            trusted == Returned(f, "getConnectionStatus", "trusted")
        IN  /\ \A i \in polls : i - 1 \in delays
            /\ \A d \in delays : d < Len(hist[f]) => d + 1 \in polls
            /\ ConnLoopLeft(f) => Cardinality(delays) = Cardinality(polls)
            /\ \A d \in delays : \A i \in trusted : d < i

C3_Witness ==
    \E f \in flows :
        /\ ConnLoopLeft(f)
        /\ Cardinality(Positions(f, "request", "getConnectionStatus")) = 3
        /\ Cardinality(Positions(f, "delay", "connLoop")) = 3

(***************************************************************************)
(* A service that answers every request without failure and never reports  *)
(* 'done'.  The event loop runs every timer that is due and every          *)
(* continuation whose response has arrived, and time passes: weak fairness *)
(* of each action.                                                         *)
(***************************************************************************)
InvitationSucceeding == {r \in InvitationResponses : ~IsThrow(createInvitation(r))}
StatusSucceeding == {r \in StatusResponses : ~IsThrow(getConnectionStatus(r))}
OfferSucceeding == {r \in OfferResponses : ~IsThrow(createCredentialOffer(r))}
StateSucceeding == {r \in StateResponses : ~IsThrow(getCredentialState(r))}
StateNeverDone == {r \in StateSucceeding : ~IsStr(getCredentialState(r), "done")}

NextNeverDone ==
    \/ \E f \in flows : Main(f)
    \/ \E f \in flows : \E resp \in InvitationSucceeding : InvitationSettled(f, resp)
    \/ \E f \in flows : GraceElapsed(f)
    \/ \E f \in flows : ConnDelayElapsed(f)
    \/ \E f \in flows : \E resp \in StatusSucceeding : ConnStatusSettled(f, resp)
    \/ \E f \in flows : \E resp \in OfferSucceeding : OfferSettled(f, resp)
    \/ \E f \in flows : CredDelayElapsed(f)
    \/ \E f \in flows : \E resp \in StateNeverDone : CredStateSettled(f, resp)
    \/ Tick

FairNeverDone ==
    /\ WF_vars(Tick)
    /\ WF_vars(\E f \in flows : Main(f))
    /\ WF_vars(\E f \in flows : \E resp \in InvitationSucceeding : InvitationSettled(f, resp))
    /\ WF_vars(\E f \in flows : GraceElapsed(f))
    /\ WF_vars(\E f \in flows : ConnDelayElapsed(f))
    /\ WF_vars(\E f \in flows : \E resp \in StatusSucceeding : ConnStatusSettled(f, resp))
    /\ WF_vars(\E f \in flows : \E resp \in OfferSucceeding : OfferSettled(f, resp))
    /\ WF_vars(\E f \in flows : CredDelayElapsed(f))
    /\ WF_vars(\E f \in flows : \E resp \in StateNeverDone : CredStateSettled(f, resp))

SpecNeverDone == Init /\ [][NextNeverDone]_vars /\ FairNeverDone

(***************************************************************************)
(* C4: when the service never reports 'done' and no request fails, the     *)
(* credential-wait loop never ends: once entered it is never left, the     *)
(* flow never completes, and every poll the model follows (the k-th, for   *)
(* every k up to MaxCredPolls) is eventually issued, after which the loop  *)
(* waits for the next one.                                                 *)
(***************************************************************************)
C4_NeverDoneNeverEnds ==
    /\ [](pc[1] # "resolved")
    /\ [][InCredLoop(1) => InCredLoop(1)']_vars
    /\ \A k \in 1..MaxCredPolls : InCredLoop(1) ~> (CredPolls(1) >= k)
    /\ InCredLoop(1) ~> [](pc[1] = "awaitCredDelay" /\ CredPolls(1) = MaxCredPolls)

C4_Witness ==
    /\ pc[1] = "awaitCredDelay"
    /\ CredPolls(1) = MaxCredPolls
    /\ Cardinality(Returned(1, "getCredentialState", "offer-sent")) = MaxCredPolls

(***************************************************************************)
(* C5: the requests of a flow occur in the order createInvitation (once),  *)
(* the getConnectionStatus polls, createCredentialOffer (once), the        *)
(* getCredentialState polls: no connection poll after the offer, no        *)
(* credential poll before it.  Every credential poll uses the credentialId *)
(* the offer returned, and a completed flow has issued all four kinds.     *)
(***************************************************************************)
C5_RequestOrder ==
    \A f \in flows :
        LET inv == Positions(f, "request", "createInvitation")
            conn == Positions(f, "request", "getConnectionStatus")
            offer == OfferRequests(f)
            cred == Positions(f, "request", "getCredentialState")
            offered == Positions(f, "response", "createCredentialOffer")
        IN  /\ Cardinality(inv) <= 1 /\ Cardinality(offer) <= 1
            /\ \A i \in inv : \A j \in conn \cup offer \cup cred : i < j
            /\ \A i \in conn : \A j \in offer \cup cred : i < j
            /\ \A i \in offer : \A j \in cred : i < j
            /\ cred # {} => offer # {}
            /\ offer # {} => conn # {}
            /\ conn # {} => inv # {}
            /\ \A k \in cred : \E o \in offered :
                   o < k /\ hist[f][k].val = hist[f][o].val
                         /\ hist[f][k].key = TemplateString(hist[f][o].val)
            /\ pc[f] = "resolved" =>
                   Cardinality(inv) = 1 /\ Cardinality(offer) = 1 /\ cred # {}

\* the scenario: statuses pending, pending, trusted; offer cred-1; states
\* offer-sent, done
C5_Witness ==
    \E f \in flows :
        /\ pc[f] = "resolved"
        /\ ConnPolls(f) = 3 /\ CredPolls(f) = 2
        /\ Cardinality(Returned(f, "getConnectionStatus", "pending")) = 2
        /\ Cardinality(Returned(f, "getCredentialState", "offer-sent")) = 1
        /\ credentialId[f] = Str("cred-1")
        /\ \A k \in Positions(f, "request", "getCredentialState") :
               hist[f][k].key = "cred-1"

(***************************************************************************)
(* C6: a failure of any service operation aborts the flow: the failure is  *)
(* the last thing the flow does or sees, tests() is rejected, nothing of   *)
(* the flow is left in flight or timed, and a rejected flow stays rejected *)
(* (it is not retried and never completes).                                *)
(***************************************************************************)
AllFailures(f) ==
    {i \in 1..Len(hist[f]) : hist[f][i].kind = "response" /\ IsThrow(hist[f][i].val)}

C6_FailureAborts ==
    /\ [](\A f \in flows :
            /\ \A i \in AllFailures(f) :
                 /\ i = Len(hist[f])
                 /\ pc[f] = "rejected"
                 /\ timer[f] = NoTimer
                 /\ \A r \in inflight : r.flow # f
            /\ pc[f] = "rejected" => AllFailures(f) # {})
    /\ [][\A f \in flows :
            pc[f] = "rejected" =>
               /\ pc'[f] = "rejected"
               /\ hist'[f] = hist[f]
               /\ timer'[f] = NoTimer
               /\ \A r \in inflight' : r.flow # f]_vars

C6_Witness ==
    \E f \in flows :
        /\ pc[f] = "rejected"
        /\ Failed(f, "createCredentialOffer") # {}
        /\ ConnPolls(f) >= 2

(***************************************************************************)
(* C7 as stated: an error raised by a status poll does not end the polling *)
(* loop: after it the flow is still in that loop (or has left it by the    *)
(* loop's own terminal value).                                             *)
(***************************************************************************)
C7_Original ==
    \A f \in flows :
        /\ Failed(f, "getConnectionStatus") # {} => InConnLoop(f) \/ ConnLoopLeft(f)
        /\ Failed(f, "getCredentialState") # {} => InCredLoop(f) \/ pc[f] = "resolved"

(***************************************************************************)
(* C7, amended: an error raised by a status poll ends its polling loop and *)
(* the flow with it.  The loop is left by the exception, not by its        *)
(* terminal value: no further poll or delay follows, no credential offer   *)
(* follows a failed connection poll, and the flow does not complete after  *)
(* a failed credential poll.                                               *)
(***************************************************************************)
C7_PollErrorEndsLoop ==
    \A f \in flows :
        /\ \A i \in Failed(f, "getConnectionStatus") :
              /\ i = Len(hist[f])
              /\ ~InConnLoop(f) /\ ~ConnLoopLeft(f)
              /\ pc[f] = "rejected"
        /\ \A i \in Failed(f, "getCredentialState") :
              /\ i = Len(hist[f])
              /\ ~InCredLoop(f)
              /\ pc[f] = "rejected"

C7_Witness ==
    \E f \in flows :
        /\ Failed(f, "getCredentialState") # {}
        /\ CredPolls(f) = 2
        /\ pc[f] = "rejected"

(***************************************************************************)
(* C8: createCredentialOffer never returns an undefined credentialId (an   *)
(* offer response without data.id makes it fail), and no getCredentialState*)
(* poll is keyed by an undefined credentialId.                             *)
(***************************************************************************)
C8_OfferNeverUndefined ==
    \A f \in flows :
        /\ \A i \in Positions(f, "response", "createCredentialOffer") :
               ~IsUndefined(hist[f][i].val)
        /\ \A i \in Positions(f, "request", "getCredentialState") :
               ~IsUndefined(hist[f][i].val) /\ hist[f][i].key # "undefined"

(***************************************************************************)
(* C9: createInvitation never returns an Invitation whose invitationUrl or *)
(* connectionId is undefined (a response missing data, data.invitationUrl, *)
(* data.connection or data.connection.id makes it fail), and no            *)
(* getConnectionStatus poll is keyed by an undefined connectionId.         *)
(***************************************************************************)
C9_InvitationNeverUndefined ==
    \A f \in flows :
        /\ \A i \in Positions(f, "response", "createInvitation") :
               \/ IsThrow(hist[f][i].val)
               \/ /\ ~IsUndefined(Get(hist[f][i].val, "invitationUrl"))
                  /\ ~IsUndefined(Get(hist[f][i].val, "connectionId"))
        /\ \A i \in Positions(f, "request", "getConnectionStatus") :
               ~IsUndefined(hist[f][i].val) /\ hist[f][i].key # "undefined"

(***************************************************************************)
(* C10: a response with a non-2xx HTTP status makes the operation fail,    *)
(* whatever its body: no operation resolves to a value on such a response. *)
(***************************************************************************)
IsSuccessStatus(status) == status \in 200..299

C10_Non2xxFails ==
    \A f \in flows :
        \A i \in 1..Len(hist[f]) :
            (hist[f][i].kind = "response" /\ ~IsSuccessStatus(hist[f][i].http))
                => IsThrow(hist[f][i].val)

(***************************************************************************)
(* C11: within a flow at most one request is in flight at any time, and    *)
(* none while a delay of the flow is pending: every request of the flow is *)
(* issued only after all its earlier requests have been answered, and the  *)
(* flow is suspended on exactly one thing, a response or a timer, until it *)
(* has ended.                                                              *)
(***************************************************************************)
InFlightOf(f) == {r \in inflight : r.flow = f}
Requests(f) == {i \in 1..Len(hist[f]) : hist[f][i].kind = "request"}
Responses(f) == {i \in 1..Len(hist[f]) : hist[f][i].kind = "response"}

C11_OneRequestInFlight ==
    \A f \in flows :
        /\ Cardinality(InFlightOf(f)) <= 1
        /\ timer[f] # NoTimer => InFlightOf(f) = {}
        /\ Cardinality(InFlightOf(f)) =
               Cardinality(Requests(f)) - Cardinality(Responses(f))
        /\ \A i \in Requests(f) :
               Cardinality({j \in Requests(f) : j < i})
                   = Cardinality({j \in Responses(f) : j < i})
        /\ pc[f] \in {"awaitInvitation", "awaitConnStatus", "awaitOffer", "awaitCredState"}
               <=> InFlightOf(f) # {}
        /\ pc[f] \in {"awaitGrace", "awaitConnDelay", "awaitCredDelay"}
               <=> timer[f] # NoTimer

C11_Witness ==
    \E f \in flows :
        /\ Cardinality(InFlightOf(f)) = 1
        /\ CredPolls(f) = 2
        /\ pc[f] = "awaitCredState"

(***************************************************************************)
(* Two invocations of tests() side by side, interleaving at their          *)
(* suspension points, against a service that answers every request with a  *)
(* well-formed envelope.                                                   *)
(***************************************************************************)
InitTwo == InitFlows({1, 2})

InvitationWellFormed == {Http(200, InvitationBody(c)) : c \in ConnectionIds}
StatusWellFormed == {Http(200, StatusBody(s)) : s \in {"pending", "trusted"}}
OfferWellFormed == {Http(200, OfferBody(i)) : i \in CredentialIds}
StateWellFormed == {Http(200, StateBody(s)) : s \in {"offer-sent", "done"}}

NextTwo ==
    \/ \E f \in flows : Main(f)
    \/ \E f \in flows : \E resp \in InvitationWellFormed : InvitationSettled(f, resp)
    \/ \E f \in flows : GraceElapsed(f)
    \/ \E f \in flows : ConnDelayElapsed(f)
    \/ \E f \in flows : \E resp \in StatusWellFormed : ConnStatusSettled(f, resp)
    \/ \E f \in flows : \E resp \in OfferWellFormed : OfferSettled(f, resp)
    \/ \E f \in flows : CredDelayElapsed(f)
    \/ \E f \in flows : \E resp \in StateWellFormed : CredStateSettled(f, resp)
    \/ Tick

SpecTwo == InitTwo /\ [][NextTwo]_vars

(***************************************************************************)
(* C12: with two flows side by side, every getConnectionStatus poll and    *)
(* the createCredentialOffer of a flow use the connectionId of the         *)
(* invitation that this same flow created.                                 *)
(***************************************************************************)
OwnConnectionIds(f) ==
    {Get(hist[f][i].val, "connectionId") : i \in Positions(f, "response", "createInvitation")}

C12_FlowsIndependent ==
    \A f \in flows :
        \A i \in Positions(f, "request", "getConnectionStatus") \cup OfferRequests(f) :
            hist[f][i].val \in OwnConnectionIds(f)

(***************************************************************************)
(* C13: a polling loop is left exactly when the value its poll returned is *)
(* the sentinel string ('trusted', 'done').  After any other returned      *)
(* value, a state by which the service reports a failure or a missing      *)
(* field included, the loop waits and polls again and the flow is not      *)
(* aborted.                                                                *)
(***************************************************************************)
Answered(f, op) == {i \in Positions(f, "response", op) : ~IsThrow(hist[f][i].val)}
IsEvent(f, i, kind, op) ==
    i <= Len(hist[f]) /\ hist[f][i].kind = kind /\ hist[f][i].op = op

C13_ExitIffSentinel ==
    \A f \in flows :
        /\ \A i \in Answered(f, "getConnectionStatus") :
              /\ IsStr(hist[f][i].val, "trusted")
                    <=> IsEvent(f, i + 2, "request", "createCredentialOffer")
              /\ ~IsStr(hist[f][i].val, "trusted")
                    <=> IsEvent(f, i + 2, "delay", "connLoop")
              /\ (i + 2 = Len(hist[f]) /\ ~IsStr(hist[f][i].val, "trusted"))
                    => pc[f] = "awaitConnDelay"
        /\ \A i \in Answered(f, "getCredentialState") :
              /\ IsStr(hist[f][i].val, "done")
                    <=> (i + 1 = Len(hist[f]) /\ pc[f] = "resolved")
              /\ ~IsStr(hist[f][i].val, "done")
                    <=> IsEvent(f, i + 2, "delay", "credLoop")
              /\ (i + 2 = Len(hist[f]) /\ ~IsStr(hist[f][i].val, "done"))
                    => pc[f] = "awaitCredDelay"

\* the loops went on after 'abandoned', after 'declined' and after a state
\* that was missing from the envelope
C13_Witness ==
    \E f \in flows :
        /\ Returned(f, "getConnectionStatus", "abandoned") # {}
        /\ Returned(f, "getCredentialState", "declined") # {}
        /\ \E i \in Answered(f, "getCredentialState") : IsUndefined(hist[f][i].val)
        /\ CredPolls(f) = 2
        /\ pc[f] = "awaitCredDelay"

(***************************************************************************)
(* C14: the body of the createCredentialOffer request carries the          *)
(* attributes of tests() verbatim (the same name/value pairs in the same   *)
(* order, none added or dropped), the connectionId the operation was       *)
(* called with, the default credentialDefinitionId, comment '' and         *)
(* autoAcceptCredential 'always', and nothing else.                        *)
(***************************************************************************)
AttributePairs(attributes) ==
    [i \in 1..Len(attributes.a) |->
        << Get(attributes.a[i], "name").s, Get(attributes.a[i], "value").s >>]

C14_OfferPayload ==
    \A f \in flows :
        \A i \in OfferRequests(f) :
            LET body == hist[f][i].body
                attributes == Get(body, "attributes")
            IN  /\ body.t = "object"
                /\ DOMAIN body.f \subseteq
                     {"connectionId", "credentialDefinitionId", "comment",
                      "attributes", "autoAcceptCredential"}
                /\ attributes.t = "array"
                /\ \A k \in 1..Len(attributes.a) :
                       DOMAIN attributes.a[k].f = {"name", "value"}
                /\ AttributePairs(attributes) =
                     << << "user_id", "testuser@merlot-education.eu" >>,
                        << "course_name", "Example Course" >>,
                        << "grade", "15/15 - passed" >>,
                        << "variable_data", "whatevs" >> >>
                /\ Get(body, "connectionId") = hist[f][i].val
                /\ Get(body, "credentialDefinitionId") = Str("<YOUR CREDENTIAL DEFINITION ID>")
                /\ Get(body, "comment") = Str("")
                /\ Get(body, "autoAcceptCredential") = Str("always")

C14_Witness ==
    \E f \in flows :
        /\ OfferRequests(f) # {}
        /\ \A i \in OfferRequests(f) :
               Get(hist[f][i].body, "connectionId") = Str("conn-2")
        /\ pc[f] = "awaitCredDelay"

(***************************************************************************)
(* C15: once the invitation is created its invitationUrl is logged and     *)
(* only then a grace period of 5000 ms is started; the flow stays in the   *)
(* grace period until the 5000 ms have elapsed in full, and no             *)
(* getConnectionStatus poll is issued before that.                         *)
(***************************************************************************)
C15_GraceBeforePolling ==
    /\ [](\A f \in flows :
            /\ \A i \in Answered(f, "createInvitation") :
                  /\ IsEvent(f, i + 1, "console", "log")
                  /\ hist[f][i + 1].val = Get(hist[f][i].body.f.data, "invitationUrl")
                  /\ IsEvent(f, i + 2, "delay", "grace")
                  /\ hist[f][i + 2].ms = 5000
            /\ \A j \in Positions(f, "request", "getConnectionStatus") :
                  \E g \in Positions(f, "delay", "grace") : g < j
            /\ pc[f] = "awaitGrace" =>
                  /\ Positions(f, "request", "getConnectionStatus") = {}
                  /\ timer[f] \in 0..5000)
    /\ [][\A f \in flows :
            /\ (pc[f] # "awaitGrace" /\ pc'[f] = "awaitGrace") => timer'[f] = 5000
            /\ (pc[f] = "awaitGrace" /\ pc'[f] = "awaitGrace") => timer'[f] <= timer[f]
            /\ (pc[f] = "awaitGrace" /\ pc'[f] # "awaitGrace") => timer[f] = 0]_vars

C15_Witness ==
    \E f \in flows :
        /\ Positions(f, "delay", "grace") # {}
        /\ ConnPolls(f) = 1
        /\ pc[f] = "awaitConnStatus"

(***************************************************************************)
(* C16: a getCredentialState poll that returns 'done' ends the flow: the   *)
(* state is logged, tests() returns, and nothing follows: no request is in *)
(* flight, no timer is pending, and a completed flow stays completed and   *)
(* does nothing more.                                                      *)
(***************************************************************************)
C16_DoneIsTerminal ==
    /\ [](\A f \in flows :
            /\ \A i \in Returned(f, "getCredentialState", "done") :
                  /\ Len(hist[f]) = i + 1
                  /\ IsEvent(f, i + 1, "console", "log")
                  /\ pc[f] = "resolved"
                  /\ timer[f] = NoTimer
                  /\ InFlightOf(f) = {}
            /\ pc[f] = "resolved" => Returned(f, "getCredentialState", "done") # {})
    /\ [][\A f \in flows :
            pc[f] = "resolved" =>
               /\ pc'[f] = "resolved"
               /\ hist'[f] = hist[f]
               /\ timer'[f] = NoTimer
               /\ \A r \in inflight' : r.flow # f]_vars

C16_Witness ==
    \E f \in flows :
        /\ pc[f] = "resolved"
        /\ CredPolls(f) = 2
        /\ Returned(f, "getCredentialState", "declined") # {}

(***************************************************************************)
(* C17: in a single flow the identifiers are threaded unchanged: every     *)
(* getConnectionStatus poll and the createCredentialOffer request use      *)
(* data.connection.id of the invitation response as received, and every   *)
(* getCredentialState poll uses data.id of the offer response as received. *)
(***************************************************************************)
C17_IdsThreaded ==
    \A f \in flows :
        /\ \A i \in Answered(f, "createInvitation") :
              LET id == Get(Get(Get(hist[f][i].body, "data"), "connection"), "id")
              IN  /\ \A j \in Positions(f, "request", "getConnectionStatus") :
                         hist[f][j].val = id /\ hist[f][j].key = TemplateString(id)
                  /\ \A j \in OfferRequests(f) :
                         hist[f][j].val = id /\ Get(hist[f][j].body, "connectionId") = id
        /\ \A o \in Answered(f, "createCredentialOffer") :
              LET id == Get(Get(hist[f][o].body, "data"), "id")
              IN  \A k \in Positions(f, "request", "getCredentialState") :
                      hist[f][k].val = id /\ hist[f][k].key = TemplateString(id)

C17_Witness ==
    \E f \in flows :
        /\ pc[f] = "resolved"
        /\ \A j \in Positions(f, "request", "getConnectionStatus") : hist[f][j].key = "conn-2"
        /\ \A k \in Positions(f, "request", "getCredentialState") : hist[f][k].key = "cred-2"
        /\ ConnPolls(f) = 2

(***************************************************************************)
(* C18: a flow issues exactly one createInvitation request (as soon as it  *)
(* has started) and at most one createCredentialOffer request, however     *)
(* many polls occur and whatever the service answers, failures included.   *)
(***************************************************************************)
C18_NeverReissued ==
    \A f \in flows :
        LET invitations == Positions(f, "request", "createInvitation")
        IN  /\ pc[f] = "start" <=> invitations = {}
            /\ pc[f] # "start" => invitations = {1}
            /\ Cardinality(OfferRequests(f)) <= 1
            /\ Cardinality(Positions(f, "response", "createInvitation")) <= 1
            /\ Cardinality(Positions(f, "response", "createCredentialOffer")) <= 1
            /\ pc[f] \in {"awaitOffer", "awaitCredDelay", "awaitCredState", "resolved"}
                   => Cardinality(OfferRequests(f)) = 1

C18_Witness ==
    \E f \in flows :
        /\ pc[f] = "rejected"
        /\ ConnPolls(f) = 3
        /\ Failed(f, "getCredentialState") # {}
        /\ Cardinality(OfferRequests(f)) = 1

(***************************************************************************)
(* A service that answers every request without failure and that, from     *)
(* some poll on, always reports 'trusted' for the connection and, after    *)
(* the offer, from some poll on always reports 'done' for the credential:  *)
(* it gives another answer only while the loop has polls left in the       *)
(* model.  The event loop runs every timer that is due and every           *)
(* continuation whose response has arrived, and time passes.               *)
(***************************************************************************)
StatusEventually(f) ==
    {r \in StatusSucceeding :
        ConnPolls(f) < MaxConnPolls \/ IsStr(getConnectionStatus(r), "trusted")}
StateEventually(f) ==
    {r \in StateSucceeding :
        CredPolls(f) < MaxCredPolls \/ IsStr(getCredentialState(r), "done")}

NextEventually ==
    \/ \E f \in flows : Main(f)
    \/ \E f \in flows : \E resp \in InvitationSucceeding : InvitationSettled(f, resp)
    \/ \E f \in flows : GraceElapsed(f)
    \/ \E f \in flows : ConnDelayElapsed(f)
    \/ \E f \in flows : \E resp \in StatusEventually(f) : ConnStatusSettled(f, resp)
    \/ \E f \in flows : \E resp \in OfferSucceeding : OfferSettled(f, resp)
    \/ \E f \in flows : CredDelayElapsed(f)
    \/ \E f \in flows : \E resp \in StateEventually(f) : CredStateSettled(f, resp)
    \/ Tick

FairEventually ==
    /\ WF_vars(Tick)
    /\ WF_vars(\E f \in flows : Main(f))
    /\ WF_vars(\E f \in flows : \E resp \in InvitationSucceeding : InvitationSettled(f, resp))
    /\ WF_vars(\E f \in flows : GraceElapsed(f))
    /\ WF_vars(\E f \in flows : ConnDelayElapsed(f))
    /\ WF_vars(\E f \in flows : \E resp \in StatusEventually(f) : ConnStatusSettled(f, resp))
    /\ WF_vars(\E f \in flows : \E resp \in OfferSucceeding : OfferSettled(f, resp))
    /\ WF_vars(\E f \in flows : CredDelayElapsed(f))
    /\ WF_vars(\E f \in flows : \E resp \in StateEventually(f) : CredStateSettled(f, resp))

SpecEventually == Init /\ [][NextEventually]_vars /\ FairEventually

(***************************************************************************)
(* C19: when no request fails and the service eventually keeps reporting   *)
(* 'trusted' and then 'done', the flow eventually completes, and stays     *)
(* completed.                                                              *)
(***************************************************************************)
C19_EventuallyIssued == <>[](pc[1] = "resolved")

\* completed at the last polls the model follows, after other answers
C19_Witness ==
    /\ pc[1] = "resolved"
    /\ ConnPolls(1) = MaxConnPolls
    /\ CredPolls(1) = MaxCredPolls
    /\ Returned(1, "getConnectionStatus", "abandoned") # {}

====
